---- MODULE Spec2Model ----
(***************************************************************************)
(* Model of the bm2 supervisor: ProcessManager (registry, log buffers,     *)
(* restart policy) and the attach / start / stop / list cases of the       *)
(* daemon's connection handler.                                            *)
(*                                                                         *)
(* Every ProcessInfo object ever created lives in `config` (the array      *)
(* this.config.processes, to which start() pushes each object); the other  *)
(* per-object variables are indexed the same way.  `processes` is the      *)
(* Map<string, ProcessInfo>, kept as the sequence of its entries in        *)
(* insertion order, each entry holding the key and the index of the object *)
(* it refers to.                                                           *)
(***************************************************************************)
EXTENDS Integers, Sequences, FiniteSets, TLC

\* ---------------------------------------------------------------- bounds
\* specification Spec: the registry (start, exit and restart, stop, list)
MaxTime == 2            \* Date.now() ranges over 0..MaxTime
MaxProcs == 3           \* ProcessInfo objects created (starts and restarts)

\* specification SpecFew: the registry with fewer ProcessInfo objects
FewProcs == 2           \* ProcessInfo objects created (starts and restarts)

\* specification SpecLog: the log buffer of one process and its attach sessions
LogTime == 1            \* Date.now() ranges over 0..LogTime
LogEmit == 3            \* chunks the child writes
LogOut == 2             \* documents written to one connection

\* specification SpecReq: the request accumulation of one connection
ReqDocs == 2            \* documents the client writes to the connection
ReqEmit == 2            \* chunks the child writes

\* specification SpecStop: the `daemon stop` path
MaxStops == 2           \* runs of the `daemon stop` command

\* connections: one sends the control requests, two send attach requests
Conns == {"ctl", "tail1", "tail2"}
AttachConns == {"tail1", "tail2"}
ExitCodes == {0, 1}

\* ------------------------------------------------------ program constants
RequestsPerConnection == 1  \* sendMessage writes one request, then ends
DefaultMaxLogLines == 1000
Null == -1              \* process.exitCode === null: the child has not exited
NotGiven == -1          \* options.maxLogLines absent from the request
NoCall == [called |-> FALSE]    \* getLogs has not been called directly
NotCalled == [pc |-> "idle"]    \* sendMessage / connect has not been called
DefaultRetries == 3     \* sendMessage(message, retries = 3)
ProbeAttempts == 5      \* connect: for (let i = 0; i < 5; i++)
RetryDelayMs == 1000    \* sendMessage: setTimeout(resolve, 1000)
ProbeDelayMs == 1000    \* connect: setTimeout(resolve, 1000)
SocketTimeoutMs == 5000 \* socket.setTimeout(5000), connect(timeout = 5000)
DefaultStartIndex == 0  \* getLogs(processId, startIndex = 0, count = 200)
DefaultCount == 200

\* the arguments of one start request: msg.script, msg.options
StartArgs(script, restart, maxLogLines) ==
    [script |-> script,
     options |-> [restart |-> restart, maxLogLines |-> maxLogLines]]

\* the start requests of Spec: what the command line sends,
\* options: { restart: args.includes("--restart") }
RegistryStarts ==
    {StartArgs("a.js", "true", NotGiven),
     StartArgs("b.js", "false", NotGiven)}

\* the start requests of SpecLog
LogStarts ==
    {StartArgs("a.js", "unset", NotGiven),
     StartArgs("a.js", "unset", 1),
     StartArgs("a.js", "unset", 2)}

VARIABLES
    now,          \* the value Date.now() returns
    config,       \* this.config.processes: every ProcessInfo, creation order
    processes,    \* this.processes: Map entries [key, ref] in insertion order
    logs,         \* logs[i]: the array processInfo.logs currently refers to
    pushProxies,  \* pushProxies[i]: connections whose proxy wraps the push of
                  \*   that array instance, innermost (first installed) first
    exitCode,     \* exitCode[i]: process.exitCode of object i
    killed,       \* killed[i]: process.kill() was called on object i
    emitted,      \* emitted[i]: every entry addLog built for object i, in order
    stopSeen,     \* stopSeen[i]: stop(config[i].id) ran after i was created
    sockOut,      \* sockOut[c]: documents written to connection c, in order
    sockEnded,    \* connections the daemon closed with socket.end
    pendingStart, \* start requests suspended in `await this.saveConfig()`
    sessions,     \* attach sessions: [conn, ref, at, snap]
    stream,       \* stream[c]: everything the client wrote to connection c
    delivered,    \* delivered[c]: how much of stream[c] the "data" events
                  \*   of connection c have handed to the handler
    buffer,       \* buffer[c]: the handler's `buffer` of connection c
    lastLogs,     \* the last direct call of getLogs and what it returned
    send,         \* one call of SocketManager.sendMessage
    probe,        \* one call of SocketManager.connect
    peerClosed,   \* connections whose client closed its side
    marker,       \* the file at PID_FILE: whether it exists, and its text
    sockFile,     \* the file at SOCKET_PATH: the pid that bound it, or NoFile
    procs,        \* procs[p]: where process p is in Daemon.start, and
                  \*   whether a SIGTERM is pending for it
    live,         \* live[c]: caller c's call of isDaemonRunning
    boots,        \* boots[k]: command line k's call of ensureDaemonRunning
    halt,         \* one call of stopDaemon
    signals,      \* the pids stopDaemon called process.kill(pid) with
    cli           \* the command the command line runs, and what it logged

vars == <<now, config, processes, logs, pushProxies, exitCode, killed,
          emitted, stopSeen, sockOut, sockEnded, pendingStart, sessions,
          stream, delivered, buffer, lastLogs, send, probe,
          peerClosed, marker, sockFile, procs, live, boots, halt, signals,
          cli>>

\* the two calls of the command line's SocketManager, and its command
client == <<send, probe, cli>>

\* the marker, the socket path, the supervisor processes and the calls of
\* the DaemonManager; and the client's side of every connection
host == <<peerClosed, marker, sockFile, procs, live, boots, halt, signals>>

\* the daemon, its children and its connections
daemon == <<now, config, processes, logs, pushProxies, exitCode, killed,
            emitted, stopSeen, sockOut, sockEnded, pendingStart, sessions,
            stream, delivered, buffer, lastLogs>>

\* the request accumulation of every connection, and the getLogs record
transport == <<stream, delivered, buffer>>

\* --------------------------------------------------------------- helpers
Min(a, b) == IF a < b THEN a ELSE b

Range(s) == {s[k] : k \in 1 .. Len(s)}

\* Array.prototype.slice(-n) for n >= 1: the last n elements, or all of them
SliceLast(l, n) ==
    IF Len(l) <= n THEN l ELSE SubSeq(l, Len(l) - n + 1, Len(l))

\* a truthy `options.restart`
Truthy(r) == r = "true"

\* { maxLogLines: 1000, ...options }
MergeOptions(options) ==
    [restart |-> options.restart,
     maxLogLines |-> IF options.maxLogLines = NotGiven
                     THEN DefaultMaxLogLines ELSE options.maxLogLines]

\* processInfo.options.maxLogLines || 1000
EffectiveMax(o) == IF o.maxLogLines = 0 THEN DefaultMaxLogLines ELSE o.maxLogLines

\* one `socket.write(JSON.stringify(doc) + "\n")`
Frame(doc) == [doc |-> doc, term |-> "\n"]

\* Map.prototype.get
MapHas(m, key) == \E k \in 1 .. Len(m) : m[k].key = key
MapGet(m, key) == (CHOOSE k \in 1 .. Len(m) : m[k].key = key)

\* Map.prototype.set: an existing key keeps its position and gets the new value
MapSet(m, key, ref) ==
    IF MapHas(m, key)
    THEN [m EXCEPT ![MapGet(m, key)].ref = ref]
    ELSE Append(m, [key |-> key, ref |-> ref])

\* Map.prototype.delete
MapDelete(m, key) == SelectSeq(m, LAMBDA e : e.key # key)

\* the object this.processes.get(id) returns, for an id the Map holds
Ref(id) == processes[MapGet(processes, id)].ref

Max(a, b) == IF a > b THEN a ELSE b

\* Array.prototype.slice(from, to): a negative index counts from the end,
\* both are clamped to 0 .. length, and from >= to gives the empty array
JsSlice(l, from, to) ==
    LET len == Len(l)
        f == IF from < 0 THEN Max(len + from, 0) ELSE Min(from, len)
        t == IF to < 0 THEN Max(len + to, 0) ELSE Min(to, len)
    IN IF f >= t THEN <<>> ELSE SubSeq(l, f + 1, t)

\* what a client writes for one request: JSON.stringify(message), then "\n";
\* a client may also write a line that is not JSON
Text(msg) == [tok |-> "text", doc |-> msg]
Junk == [tok |-> "junk"]
Newline == [tok |-> "nl"]

\* a test that takes every buffer as complete
EndsWithNewlineAlways(buf) == buf # <<>>

\* buffer.endsWith("\n")
EndsWithNewline(buf) == buf # <<>> /\ buf[Len(buf)].tok = "nl"

\* a parser that reads the first document of the buffer and ignores the rest
ParsesFirst(buf) == Len(buf) >= 2 /\ buf[1].tok = "text" /\ buf[2].tok = "nl"

\* JSON.parse(buffer) returns a value when the buffer is one JSON document
\* followed by white space, and throws on anything else
Parses(buf) == Len(buf) = 2 /\ buf[1].tok = "text" /\ buf[2].tok = "nl"
Parsed(buf) == buf[1].doc

\* ------------------------------------------------------------ ProcessManager

\* a trim that keeps the oldest entries: logs.slice(0, max)
TrimKeepsOldest(l, max) == IF Len(l) > max THEN SubSeq(l, 1, max) ELSE l

\* the trim of addLog: logs = logs.slice(-max) once length exceeds max
Trim(l, max) == IF Len(l) > max THEN SliceLast(l, max) ELSE l

\* TRUE when the trim replaces the array processInfo.logs refers to
Replaced(l, max) == Len(l) > max

\* logs.push(entry) on an array whose push is wrapped by the proxies in `ps`:
\* the outermost (last installed) proxy runs logStream first, then applies
\* its target, down to Array.prototype.push
RECURSIVE Forward(_, _, _)
Forward(out, ps, entry) ==
    IF ps = <<>> THEN out
    ELSE LET c == ps[Len(ps)]
         IN Forward([out EXCEPT ![c] = Append(out[c], Frame(entry))],
                    SubSeq(ps, 1, Len(ps) - 1), entry)

\* a restart policy that joins the two conditions with ||
ShouldRestartEither(code, options) == code # 0 \/ Truthy(options.restart)

\* code !== 0 && options.restart
ShouldRestart(code, options) == code # 0 /\ Truthy(options.restart)

\* a status whose two branches are swapped
StatusSwapped(ec) == IF ec = Null THEN "stopped" ELSE "running"

\* proc.process.exitCode === null ? "running" : "stopped"
Status(ec) == IF ec = Null THEN "running" ELSE "stopped"

\* list(): one ProcessListInfo per Map entry, in Map order
list ==
    [k \in 1 .. Len(processes) |->
        LET i == processes[k].ref
        IN [id |-> config[i].id,
            script |-> config[i].script,
            uptime |-> now - config[i].startTime,
            status |-> Status(exitCode[i])]]

\* the synchronous part of start(script, options), up to `await saveConfig()`;
\* ec is process.exitCode of the existing objects when start is entered
start(script, options, ec) ==
    /\ config' = Append(config, [id |-> now, script |-> script,
                                 startTime |-> now,
                                 options |-> MergeOptions(options),
                                 args |-> options])
    /\ processes' = MapSet(processes, now, Len(config) + 1)
    /\ logs' = Append(logs, <<>>)
    /\ pushProxies' = Append(pushProxies, <<>>)
    /\ exitCode' = Append(ec, Null)
    /\ killed' = Append(killed, FALSE)
    /\ emitted' = Append(emitted, <<>>)
    /\ stopSeen' = Append(stopSeen, FALSE)

\* stdoutHandler.write / stderrHandler.write -> addLog(processInfo, log, isError)
addLog(i, isError) ==
    LET entry == [timestamp |-> now, message |-> Len(emitted[i]) + 1,
                  isError |-> isError]
        pushed == Append(logs[i], entry)
        max == EffectiveMax(config[i].options)
    IN /\ sockOut' = Forward(sockOut, pushProxies[i], entry)
       /\ logs' = [logs EXCEPT ![i] = Trim(pushed, max)]
       /\ pushProxies' = [pushProxies EXCEPT
                            ![i] = IF Replaced(pushed, max) THEN <<>> ELSE @]
       /\ emitted' = [emitted EXCEPT ![i] = Append(@, entry)]

\* a stop that, for an id the Map does not hold, removes the oldest record
stopUnknownRemovesOldest(id) ==
    /\ IF MapHas(processes, id)
       THEN /\ killed' = [killed EXCEPT ![processes[MapGet(processes, id)].ref] = TRUE]
            /\ processes' = MapDelete(processes, id)
       ELSE /\ killed' = killed
            /\ processes' = IF processes = <<>> THEN processes ELSE Tail(processes)
    /\ stopSeen' = [i \in 1 .. Len(config) |-> stopSeen[i] \/ config[i].id = id]

\* stop(processId)
stop(id) ==
    /\ IF MapHas(processes, id)
       THEN /\ killed' = [killed EXCEPT ![processes[MapGet(processes, id)].ref] = TRUE]
            /\ processes' = MapDelete(processes, id)
       ELSE UNCHANGED <<killed, processes>>
    /\ stopSeen' = [i \in 1 .. Len(config) |-> stopSeen[i] \/ config[i].id = id]

\* getLogs(processId, startIndex, count): throws for an id the Map does not
\* hold, else logs.slice(startIndex, Math.min(startIndex + count, logs.length))
getLogs(id, startIndex, count) ==
    IF ~MapHas(processes, id)
    THEN [threw |-> TRUE, logs |-> <<>>]
    ELSE LET l == logs[Ref(id)]
             endIndex == Min(startIndex + count, Len(l))
         IN [threw |-> FALSE, logs |-> JsSlice(l, startIndex, endIndex)]

\* ------------------------------------------------------------------ actions

RECURSIVE SumLen(_)
SumLen(ss) == IF ss = <<>> THEN 0 ELSE Len(Head(ss)) + SumLen(Tail(ss))

\* a replay loop that starts at the second entry
AttachReplaySkipsFirst(l) == [k \in 1 .. Len(l) - 1 |-> Frame(l[k + 1])]

\* the replay loop of attach: for (const log of proc.logs) socket.write(...)
AttachReplay(l) == [k \in 1 .. Len(l) |-> Frame(l[k])]

\* the processes of the host: 100 is a supervisor an earlier command line
\* spawned, 101 and 102 are the pids the system gives the next two spawns
Pids == {100, 101, 102}
SpawnPids == <<101, 102>>

\* the command lines, and the callers of isDaemonRunning: the bootstrap of
\* each command line, and the `daemon` status command
Clis == {"cli1", "cli2"}
Callers == Clis \cup {"status"}

\* existsSync(SOCKET_PATH) is false; `proc.pid` is undefined
NoFile == 0
NoPid == 0

\* the marker does not exist
Absent == [exists |-> FALSE, text |-> ""]

\* a marker write that leaves the pid of the earlier supervisor in place
ClearedKeepsPid == [exists |-> TRUE, text |-> "100"]

\* the marker after Bun.write(PID_FILE, "")
Cleared == [exists |-> TRUE, text |-> ""]

\* isDaemonRunning, ensureDaemonRunning and stopDaemon before they are called
LiveIdle == [pc |-> "idle", text |-> "", result |-> FALSE]
BootIdle == [pc |-> "idle", pid |-> NoPid, attempts |-> 0, trace |-> <<>>,
             atCall |-> [marker |-> Absent, alive |-> {}, reachable |-> FALSE,
                         alone |-> TRUE]]
HaltIdle == [pc |-> "idle", text |-> "", read |-> FALSE, calls |-> 0]

\* main has not called handleCommand
NoCommand == [command |-> "none", args |-> <<>>, logged |-> <<>>]

\* a process that was never created
NoProc == [pc |-> "none", term |-> FALSE]

\* the daemon's registry, its connections and the client's calls, as they
\* are when the daemon has started
InitDaemon ==
    /\ now = 0
    /\ config = <<>>
    /\ processes = <<>>
    /\ logs = <<>>
    /\ pushProxies = <<>>
    /\ exitCode = <<>>
    /\ killed = <<>>
    /\ emitted = <<>>
    /\ stopSeen = <<>>
    /\ sockOut = [c \in Conns |-> <<>>]
    /\ sockEnded = {}
    /\ pendingStart = {}
    /\ sessions = {}
    /\ stream = [c \in Conns |-> <<>>]
    /\ delivered = [c \in Conns |-> 0]
    /\ buffer = [c \in Conns |-> <<>>]
    /\ lastLogs = NoCall
    /\ send = NotCalled
    /\ probe = NotCalled
    /\ peerClosed = {}
    /\ live = [c \in Callers |-> LiveIdle]
    /\ boots = [k \in Clis |-> BootIdle]
    /\ halt = HaltIdle
    /\ signals = <<>>
    /\ cli = NoCommand

\* the supervisor of an earlier command line serves: the marker holds its
\* pid and the socket path is the one it bound
Init ==
    /\ InitDaemon
    /\ marker = [exists |-> TRUE, text |-> "100"]
    /\ sockFile = 100
    /\ procs = [p \in Pids |-> IF p = 100 THEN [pc |-> "serving", term |-> FALSE]
                                         ELSE NoProc]

\* the clock advances
Tick ==
    /\ now' = now + 1
    /\ UNCHANGED <<config, processes, logs, pushProxies, exitCode, killed,
                   emitted, stopSeen, sockOut, sockEnded, pendingStart, sessions,
                   transport, lastLogs,
                   client, host>>

\* case "start": manager.start runs up to its await; the response is written
\* when saveConfig has completed (StartReply)
ReqStart(c, script, options) ==
    /\ c \notin sockEnded
    /\ start(script, options, exitCode)
    /\ pendingStart' = pendingStart \cup
                         {[conn |-> c, id |-> now, ref |-> Len(config) + 1]}
    /\ UNCHANGED <<now, sockOut, sockEnded, sessions>>

\* start resumes after `await this.saveConfig()` and returns processId;
\* the handler writes { status: "ok", id }
StartReply(p) ==
    /\ p \in pendingStart
    /\ p.conn \notin sockEnded
    /\ pendingStart' = pendingStart \ {p}
    /\ sockOut' = [sockOut EXCEPT
                     ![p.conn] = Append(@, Frame([status |-> "ok", id |-> p.id]))]
    /\ UNCHANGED <<now, config, processes, logs, pushProxies, exitCode, killed,
                   emitted, stopSeen, sockEnded, sessions, transport, lastLogs,
                   client, host>>

\* case "stop"
ReqStop(c, id) ==
    /\ c \notin sockEnded
    /\ stop(id)
    /\ sockOut' = [sockOut EXCEPT ![c] = Append(@, Frame([status |-> "stopped"]))]
    /\ UNCHANGED <<now, config, logs, pushProxies, exitCode, emitted,
                   sockEnded, pendingStart, sessions>>

\* case "list"
ReqList(c) ==
    /\ c \notin sockEnded
    /\ sockOut' = [sockOut EXCEPT
                     ![c] = Append(@, Frame([status |-> "ok", list |-> list]))]
    /\ UNCHANGED <<now, config, processes, logs, pushProxies, exitCode, killed,
                   emitted, stopSeen, sockEnded, pendingStart, sessions>>

\* a socket.end that leaves the connection open
socketEndNever(ended, c) == ended

\* socket.end(...): the daemon closes its side of connection c
socketEnd(ended, c) == ended \cup {c}

\* case "attach"; the command line sends one attach request on a connection
ReqAttach(c, id) ==
    /\ c \notin sockEnded
    /\ \A s \in sessions : s.conn # c
    /\ IF ~MapHas(processes, id)
       THEN /\ sockOut' = [sockOut EXCEPT
                             ![c] = Append(@, Frame([error |-> "Not found"]))]
            /\ sockEnded' = socketEnd(sockEnded, c)
            /\ UNCHANGED <<pushProxies, sessions>>
       ELSE LET i == processes[MapGet(processes, id)].ref
            IN /\ sockOut' = [sockOut EXCEPT ![c] = @ \o AttachReplay(logs[i])]
               /\ pushProxies' = [pushProxies EXCEPT ![i] = Append(@, c)]
               /\ sessions' = sessions \cup
                                {[conn |-> c, ref |-> i,
                                  at |-> Len(emitted[i]), snap |-> logs[i]]}
               /\ UNCHANGED sockEnded
    /\ UNCHANGED <<now, config, processes, logs, exitCode, killed, emitted,
                   stopSeen, pendingStart>>

\* a catch that also closes the connection
ReqInvalidFormatEnds(c) ==
    /\ c \notin sockEnded
    /\ sockOut' = [sockOut EXCEPT
                     ![c] = Append(@, Frame([error |-> "Invalid message format"]))]
    /\ sockEnded' = sockEnded \cup {c}
    /\ UNCHANGED <<now, config, processes, logs, pushProxies, exitCode, killed,
                   emitted, stopSeen, pendingStart, sessions>>

\* the catch of the handler: one error document; the buffer is emptied by
\* the caller
ReqInvalidFormat(c) ==
    /\ c \notin sockEnded
    /\ sockOut' = [sockOut EXCEPT
                     ![c] = Append(@, Frame([error |-> "Invalid message format"]))]
    /\ UNCHANGED <<now, config, processes, logs, pushProxies, exitCode, killed,
                   emitted, stopSeen, sockEnded, pendingStart, sessions>>

\* the default case
ReqInvalidType(c) ==
    /\ c \notin sockEnded
    /\ sockOut' = [sockOut EXCEPT
                     ![c] = Append(@, Frame([error |-> "Invalid message type"]))]
    /\ UNCHANGED <<now, config, processes, logs, pushProxies, exitCode, killed,
                   emitted, stopSeen, sockEnded, pendingStart, sessions>>

\* case "logs": this.manager.getLogs(msg.processId), the defaults for the
\* other two parameters; when getLogs throws, the catch answers
ReqLogs(c, id) ==
    LET r == getLogs(id, DefaultStartIndex, DefaultCount)
    IN IF r.threw
       THEN ReqInvalidFormat(c)
       ELSE /\ c \notin sockEnded
            /\ sockOut' = [sockOut EXCEPT
                  ![c] = Append(@, Frame([status |-> "ok", logs |-> r.logs]))]
            /\ UNCHANGED <<now, config, processes, logs, pushProxies, exitCode,
                           killed, emitted, stopSeen, sockEnded, pendingStart,
                           sessions>>

\* switch (msg.type)
Dispatch(c, msg) ==
    CASE msg.type = "start" -> ReqStart(c, msg.script, msg.options)
      [] msg.type = "stop" -> ReqStop(c, msg.processId)
      [] msg.type = "list" -> ReqList(c)
      [] msg.type = "logs" -> ReqLogs(c, msg.processId)
      [] msg.type = "attach" -> ReqAttach(c, msg.processId)
      [] OTHER -> ReqInvalidType(c)

\* the client of connection c writes one line
ClientWrite(c, t) ==
    /\ c \notin sockEnded
    /\ stream' = [stream EXCEPT ![c] = @ \o <<t, Newline>>]
    /\ UNCHANGED <<now, config, processes, logs, pushProxies, exitCode, killed,
                   emitted, stopSeen, sockOut, sockEnded, pendingStart, sessions,
                   delivered, buffer, lastLogs,
                   client, host>>

\* socket.on("data"): the next n undelivered pieces of the stream arrive as
\* one chunk; the handler appends it to the buffer and, when the buffer ends
\* with a newline, parses the buffer, empties it and dispatches the message
Data(c, n) ==
    /\ c \notin sockEnded
    /\ n \in 1 .. Len(stream[c]) - delivered[c]
    /\ LET chunk == SubSeq(stream[c], delivered[c] + 1, delivered[c] + n)
           buf == buffer[c] \o chunk
       IN /\ delivered' = [delivered EXCEPT ![c] = @ + n]
          /\ IF ~EndsWithNewline(buf)
             THEN /\ buffer' = [buffer EXCEPT ![c] = buf]
                  /\ UNCHANGED <<now, config, processes, logs, pushProxies,
                                 exitCode, killed, emitted, stopSeen, sockOut,
                                 sockEnded, pendingStart, sessions>>
             ELSE /\ buffer' = [buffer EXCEPT ![c] = <<>>]
                  /\ IF Parses(buf)
                     THEN Dispatch(c, Parsed(buf))
                     ELSE ReqInvalidFormat(c)
    /\ UNCHANGED <<stream, lastLogs,
                   client, host>>

\* a caller inside the daemon calls getLogs(id, startIndex, count)
CallGetLogs(id, startIndex, count) ==
    /\ lastLogs' = [called |-> TRUE, id |-> id, startIndex |-> startIndex,
                    count |-> count, known |-> MapHas(processes, id),
                    of |-> IF MapHas(processes, id) THEN logs[Ref(id)] ELSE <<>>,
                    result |-> getLogs(id, startIndex, count)]
    /\ UNCHANGED <<now, config, processes, logs, pushProxies, exitCode, killed,
                   emitted, stopSeen, sockOut, sockEnded, pendingStart, sessions,
                   transport,
                   client, host>>

\* a child that has not exited writes a chunk to stdout or stderr
ChildOutput(i, isError) ==
    /\ i \in 1 .. Len(config)
    /\ exitCode[i] = Null
    /\ addLog(i, isError)
    /\ UNCHANGED <<now, config, processes, exitCode, killed, stopSeen,
                   sockEnded, pendingStart, sessions, transport, lastLogs,
                   client, host>>

\* process.exited resolves with `code`: exitCode is set and the handler
\* restarts the script when the policy says so; a child is not seen to exit
\* in the millisecond Date.now() returned before it was spawned
ChildExit(i, code) ==
    /\ i \in 1 .. Len(config)
    /\ exitCode[i] = Null
    /\ now > config[i].startTime
    /\ IF ShouldRestart(code, config[i].args)
       THEN start(config[i].script, config[i].args,
                  [exitCode EXCEPT ![i] = code])
       ELSE /\ exitCode' = [exitCode EXCEPT ![i] = code]
            /\ UNCHANGED <<config, processes, logs, pushProxies, killed,
                           emitted, stopSeen>>
    /\ UNCHANGED <<now, sockOut, sockEnded, pendingStart, sessions,
                   transport, lastLogs,
                   client, host>>

\* the documents an attach request for `id` writes
AttachWrites(id) ==
    IF MapHas(processes, id) THEN Len(logs[processes[MapGet(processes, id)].ref]) ELSE 1

\* a client sends a request on a connection that has no request outstanding
Idle(c) == \A p \in pendingStart : p.conn # c

\* the command line's sendMessage ends its connection once the response has
\* arrived and sends its next request on a new connection, to which nothing
\* has been written yet
Reconnect(c) ==
    /\ Idle(c)
    /\ c \notin sockEnded
    /\ sockOut[c] # <<>>
    /\ \A s \in sessions : s.conn # c
    /\ sockOut' = [sockOut EXCEPT ![c] = <<>>]
    /\ stream' = [stream EXCEPT ![c] = <<>>]
    /\ delivered' = [delivered EXCEPT ![c] = 0]
    /\ buffer' = [buffer EXCEPT ![c] = <<>>]
    /\ UNCHANGED <<now, config, processes, logs, pushProxies, exitCode, killed,
                   emitted, stopSeen, sockEnded, pendingStart, sessions, lastLogs,
                   client, host>>

\* the control connection may send one more request
CanSend(c, max) == Idle(c) /\ Len(sockOut[c]) < max

\* the request of this step reaches the handler as one chunk, a whole
\* document and its newline, on a connection whose buffer is empty: the
\* handler parses it, empties the buffer again and dispatches it
Whole(c) ==
    /\ buffer[c] = <<>>
    /\ UNCHANGED <<transport, lastLogs,
                   client, host>>

\* the registry: requests arrive on the control connection
Next ==
    \/ now < MaxTime /\ Tick
    \/ \E a \in RegistryStarts :
          /\ Len(config) < MaxProcs /\ CanSend("ctl", RequestsPerConnection)
          /\ ReqStart("ctl", a.script, a.options) /\ Whole("ctl")
    \/ \E p \in pendingStart : StartReply(p)
    \/ \E id \in 0 .. MaxTime :
          CanSend("ctl", RequestsPerConnection) /\ ReqStop("ctl", id) /\ Whole("ctl")
    \/ CanSend("ctl", RequestsPerConnection) /\ ReqList("ctl") /\ Whole("ctl")
    \/ Reconnect("ctl")
    \/ \E i \in 1 .. Len(config), code \in ExitCodes :
          /\ ShouldRestart(code, config[i].args) => Len(config) < MaxProcs
          /\ ChildExit(i, code)

Spec == Init /\ [][Next]_vars

\* the registry with at most FewProcs objects
NextFew ==
    \/ now < MaxTime /\ Tick
    \/ \E a \in RegistryStarts :
          /\ Len(config) < FewProcs /\ CanSend("ctl", RequestsPerConnection)
          /\ ReqStart("ctl", a.script, a.options) /\ Whole("ctl")
    \/ \E p \in pendingStart : StartReply(p)
    \/ \E id \in 0 .. MaxTime :
          CanSend("ctl", RequestsPerConnection) /\ ReqStop("ctl", id) /\ Whole("ctl")
    \/ CanSend("ctl", RequestsPerConnection) /\ ReqList("ctl") /\ Whole("ctl")
    \/ Reconnect("ctl")
    \/ \E i \in 1 .. Len(config), code \in ExitCodes :
          /\ ShouldRestart(code, config[i].args) => Len(config) < FewProcs
          /\ ChildExit(i, code)

SpecFew == Init /\ [][NextFew]_vars

\* one process, its output and the attach requests of two connections
NextLog ==
    \/ now < LogTime /\ Tick
    \/ \E a \in LogStarts :
          /\ config = <<>> /\ CanSend("ctl", RequestsPerConnection)
          /\ ReqStart("ctl", a.script, a.options) /\ Whole("ctl")
    \/ \E p \in pendingStart : StartReply(p)
    \/ Reconnect("ctl")
    \/ \E c \in AttachConns, id \in 0 .. LogTime :
          /\ Len(sockOut[c]) + AttachWrites(id) <= LogOut /\ Idle(c)
          /\ ReqAttach(c, id) /\ Whole(c)
    \/ \E i \in 1 .. Len(config), isError \in BOOLEAN :
          /\ SumLen(emitted) < LogEmit
          /\ \A c \in Range(pushProxies[i]) : Len(sockOut[c]) < LogOut
          /\ ChildOutput(i, isError)
    \/ \E id \in 0 .. LogTime :
          CanSend("ctl", RequestsPerConnection) /\ ReqStop("ctl", id) /\ Whole("ctl")
    \/ \E i \in 1 .. Len(config), code \in ExitCodes :
          /\ ~ShouldRestart(code, config[i].args)
          /\ ChildExit(i, code)

SpecLog == Init /\ [][NextLog]_vars

\* the lines a client writes in SpecReq: the five request types, a type the
\* switch does not know, and a line that is not JSON
ReqLines ==
    <<Text([type |-> "start", script |-> "a.js",
            options |-> [restart |-> "unset", maxLogLines |-> NotGiven]]),
      Text([type |-> "stop", processId |-> 0]),
      Text([type |-> "list"]),
      Text([type |-> "logs", processId |-> 0]),
      Text([type |-> "logs", processId |-> 0, startIndex |-> 1, count |-> 1]),
      Text([type |-> "logs", processId |-> 1]),
      Text([type |-> "attach", processId |-> 1]),
      Text([type |-> "restart", processId |-> 0]),
      Junk>>

\* the arguments of the direct calls of getLogs: a registered and an
\* unregistered id, start indexes from below 0 to beyond the log's length
ReqIds == {0, 1}
GetLogsStarts == -1 .. ReqEmit + 1
GetLogsCounts == (0 .. ReqEmit) \cup {DefaultCount}

\* one connection, its request stream cut into chunks, and one process
NextReq ==
    \/ \E k \in 1 .. Len(ReqLines) :
          /\ Len(stream["ctl"]) < 2 * ReqDocs
          /\ ClientWrite("ctl", ReqLines[k])
    \/ \E n \in 1 .. 2 * ReqDocs : Data("ctl", n)
    \/ \E p \in pendingStart : StartReply(p)
    \/ \E i \in 1 .. Len(config), isError \in BOOLEAN :
          /\ SumLen(emitted) < ReqEmit
          /\ ChildOutput(i, isError)

SpecReq == Init /\ [][NextReq]_vars

\* one process, its output, and direct calls of getLogs
NextGetLogs ==
    \/ \E a \in LogStarts :
          /\ config = <<>> /\ CanSend("ctl", RequestsPerConnection)
          /\ ReqStart("ctl", a.script, a.options) /\ Whole("ctl")
    \/ \E p \in pendingStart : StartReply(p)
    \/ \E i \in 1 .. Len(config), isError \in BOOLEAN :
          /\ SumLen(emitted) < ReqEmit
          /\ ChildOutput(i, isError)
    \/ \E id \in ReqIds, startIndex \in GetLogsStarts, count \in GetLogsCounts :
          CallGetLogs(id, startIndex, count)

SpecGetLogs == Init /\ [][NextGetLogs]_vars

\* ------------------------------------------------------------ SocketManager

\* `new Socket()`, socket.setTimeout(ms), socket.connect(path): one attempt
NewSocket(ms) == [connected |-> FALSE, writes |-> 0, timeout |-> ms,
                  partial |-> FALSE, outcome |-> "pending"]

\* the socket of the current attempt of call m, and its replacement
Current(m) == m.sockets[Len(m.sockets)]
WithCurrent(m, sock) == [m EXCEPT !.sockets[Len(m.sockets)] = sock]

\* the values sendMessage is called with for `retries`
RetriesArgs == 0 .. DefaultRetries

\* sendMessage(message, retries): the loop is entered when 0 < retries, else
\* `throw new Error("Failed to send message after retries")`
Entered(retries) ==
    IF retries > 0
    THEN [pc |-> "connecting", retries |-> retries, i |-> 0,
          sockets |-> <<NewSocket(SocketTimeoutMs)>>,
          slept |-> <<>>, thrown |-> "none"]
    ELSE [pc |-> "threw", retries |-> retries, i |-> 0,
          sockets |-> <<>>, slept |-> <<>>,
          thrown |-> "Failed to send message after retries"]

\* a call of sendMessage
CallSendMessage(retries) ==
    /\ send.pc = "idle"
    /\ send' = Entered(retries)
    /\ UNCHANGED <<daemon, host, probe, cli>>

\* socket.on("connect"): socket.write(JSON.stringify(message) + "\n")
SendConnect ==
    /\ send.pc = "connecting"
    /\ send' = [WithCurrent(send, [Current(send) EXCEPT
                                     !.connected = TRUE, !.writes = @ + 1])
                 EXCEPT !.pc = "waiting"]
    /\ UNCHANGED <<daemon, host, probe, cli>>

\* the catch of the loop, for the attempt that failed with `err`
SendCatch(m, err) ==
    LET failed == WithCurrent(m, [Current(m) EXCEPT !.outcome = err])
    IN IF m.i = m.retries - 1
       THEN [failed EXCEPT !.pc = "threw", !.thrown = err]
       ELSE [failed EXCEPT !.pc = "delay"]

\* socket.on("data") with a chunk that does not complete the response line
SendDataPartial ==
    /\ send.pc = "waiting"
    /\ ~Current(send).partial
    /\ send' = WithCurrent(send, [Current(send) EXCEPT !.partial = TRUE])
    /\ UNCHANGED <<daemon, host, probe, cli>>

\* socket.on("data") with the chunk that ends in "\n": JSON.parse succeeds,
\* resolve(parsed) and socket.end(), or throws, reject(err)
SendDataComplete(valid) ==
    /\ send.pc = "waiting"
    /\ send' = IF valid
               THEN [WithCurrent(send, [Current(send) EXCEPT !.outcome = "response"])
                     EXCEPT !.pc = "returned"]
               ELSE SendCatch(send, "SyntaxError")
    /\ UNCHANGED <<daemon, host, probe, cli>>

\* socket.on("error"): socket.destroy(), reject(err)
SendError ==
    /\ send.pc \in {"connecting", "waiting"}
    /\ send' = SendCatch(send, "socket error")
    /\ UNCHANGED <<daemon, host, probe, cli>>

\* socket.on("timeout"), after 5000 ms without activity on the socket:
\* socket.destroy(), reject(new Error("Socket timeout"))
SendTimeout ==
    /\ send.pc \in {"connecting", "waiting"}
    /\ send' = SendCatch(send, "Socket timeout")
    /\ UNCHANGED <<daemon, host, probe, cli>>

\* the daemon's side of the connection is closed before a complete response
\* line was written (the daemon exits): the socket emits "end" and "close",
\* for which sendMessage registers no handler, and a closed socket emits no
\* "timeout"; the promise of the attempt is never settled
SendPeerClose ==
    /\ send.pc = "waiting"
    /\ send' = [WithCurrent(send, [Current(send) EXCEPT !.outcome = "closed"])
                EXCEPT !.pc = "closed"]
    /\ UNCHANGED <<daemon, host, probe, cli>>

\* the delay of the catch has passed: i++ and the next attempt
SendRetry ==
    /\ send.pc = "delay"
    /\ send' = [send EXCEPT !.pc = "connecting",
                            !.i = @ + 1,
                            !.slept = Append(@, RetryDelayMs),
                            !.sockets = Append(@, NewSocket(SocketTimeoutMs))]
    /\ UNCHANGED <<daemon, host, probe, cli>>

\* a count of attempts taken from sendMessage's default
ProbeLastIsRetries(i) == i = DefaultRetries - 1

\* connect: `if (i === 4)`, the last pass of `for (let i = 0; i < 5; i++)`
ProbeLast(i) == i = ProbeAttempts - 1

\* connect(timeout = 5000)
CallConnect ==
    /\ probe.pc = "idle"
    /\ probe' = [pc |-> "connecting", i |-> 0,
                 sockets |-> <<NewSocket(SocketTimeoutMs)>>, slept |-> <<>>]
    /\ UNCHANGED <<daemon, host, send, cli>>

\* socket.on("connect"): socket.end(), resolve(), return true
ProbeConnect ==
    /\ probe.pc = "connecting"
    /\ probe' = [WithCurrent(probe, [Current(probe) EXCEPT
                                       !.connected = TRUE, !.outcome = "connected"])
                 EXCEPT !.pc = "true"]
    /\ UNCHANGED <<daemon, host, send, cli>>

\* the catch of connect's loop
ProbeCatch(m, err) ==
    LET failed == WithCurrent(m, [Current(m) EXCEPT !.outcome = err])
    IN IF ProbeLast(m.i)
       THEN [failed EXCEPT !.pc = "false"]
       ELSE [failed EXCEPT !.pc = "delay"]

\* socket.on("error") / socket.on("timeout"): socket.destroy(), reject
ProbeFail(err) ==
    /\ probe.pc = "connecting"
    /\ probe' = ProbeCatch(probe, err)
    /\ UNCHANGED <<daemon, host, send, cli>>

\* the delay of the catch has passed: i++ and the next attempt
ProbeRetry ==
    /\ probe.pc = "delay"
    /\ probe' = [probe EXCEPT !.pc = "connecting",
                              !.i = @ + 1,
                              !.slept = Append(@, ProbeDelayMs),
                              !.sockets = Append(@, NewSocket(SocketTimeoutMs))]
    /\ UNCHANGED <<daemon, host, send, cli>>

\* one call of sendMessage and one call of connect, and what their sockets
\* report
NextClient ==
    \/ \E retries \in RetriesArgs : CallSendMessage(retries)
    \/ SendConnect
    \/ SendDataPartial
    \/ \E valid \in BOOLEAN : SendDataComplete(valid)
    \/ SendError
    \/ SendTimeout
    \/ SendPeerClose
    \/ SendRetry
    \/ CallConnect
    \/ ProbeConnect
    \/ \E err \in {"socket error", "Socket timeout"} : ProbeFail(err)
    \/ ProbeRetry

\* every socket event, timer and continuation that is due happens: a socket
\* that is open reports a connection, data, an error or its timeout, and a
\* setTimeout fires
SpecClient == Init /\ [][NextClient]_vars /\ WF_vars(NextClient)

\* ------------------------------------------------------------ DaemonManager

\* Number(text) for the texts a marker holds here; NaN for "abc"
NaN == [nan |-> TRUE, n |-> 0]
Num(n) == [nan |-> FALSE, n |-> n]
Number(text) ==
    CASE text = "" -> Num(0)
      [] text = "0" -> Num(0)
      [] text = "-5" -> Num(0 - 5)
      [] text = "100" -> Num(100)
      [] text = "101" -> Num(101)
      [] text = "102" -> Num(102)
      [] OTHER -> NaN

\* String(pid)
String(pid) ==
    CASE pid = 100 -> "100"
      [] pid = 101 -> "101"
      [] pid = 102 -> "102"

\* process p exists
Alive(p) == p \in Pids /\ procs[p].pc \notin {"none", "dead"}

\* process.kill(pid, 0) returns: the process exists; 0 names the caller's
\* own process group, a negative pid a group that does not exist
KillProbe(pid) == IF pid > 0 THEN Alive(pid) ELSE pid = 0

\* supervisor d listens, and the socket path leads to it
Listening(d) == procs[d].pc \in {"bound", "serving"}
Reachable(d) == Listening(d) /\ sockFile = d

\* stopDaemon: `isNaN(pid)`
NotANumber(text) == Number(text).nan

\* a validity test that takes 0 for a pid
InvalidPidAcceptsZero(text) == text = "" \/ Number(text).nan \/ Number(text).n < 0

\* `!pidFileContent || isNaN(pid) || pid <= 0`
InvalidPid(text) == text = "" \/ Number(text).nan \/ Number(text).n <= 0

\* isDaemonRunning: `await pidFile.exists()`
LiveExists(c) ==
    /\ live[c].pc = "exists"
    /\ live' = [live EXCEPT ![c] =
                  IF marker.exists
                  THEN [@ EXCEPT !.pc = "read"]
                  ELSE [@ EXCEPT !.pc = "done", !.result = FALSE]]
    /\ UNCHANGED <<daemon, client, peerClosed, marker, sockFile, procs, boots,
                   halt, signals>>

\* isDaemonRunning: `await pidFile.text()` (it throws when the marker was
\* removed meanwhile), the validity test and process.kill(pid, 0)
LiveRead(c) ==
    /\ live[c].pc = "read"
    /\ live' = [live EXCEPT ![c] =
                  IF ~marker.exists
                  THEN [@ EXCEPT !.pc = "clear"]
                  ELSE IF InvalidPid(marker.text)
                  THEN [@ EXCEPT !.pc = "clear", !.text = marker.text]
                  ELSE IF KillProbe(Number(marker.text).n)
                  THEN [pc |-> "done", text |-> marker.text, result |-> TRUE]
                  ELSE [@ EXCEPT !.pc = "clear", !.text = marker.text]]
    /\ UNCHANGED <<daemon, client, peerClosed, marker, sockFile, procs, boots,
                   halt, signals>>

\* isDaemonRunning: `await Bun.write(this.PID_FILE, "")`, return false
LiveClear(c) ==
    /\ live[c].pc = "clear"
    /\ marker' = Cleared
    /\ live' = [live EXCEPT ![c] = [@ EXCEPT !.pc = "done", !.result = FALSE]]
    /\ UNCHANGED <<daemon, client, peerClosed, sockFile, procs, boots, halt,
                   signals>>

\* the other command lines have not called ensureDaemonRunning or their
\* call has ended
Finished(k) == \A j \in Clis \ {k} :
                   boots[j].pc \in {"idle", "found", "confirmed", "nopid", "fatal"}

\* the constructor of CLI calls ensureDaemonRunning, which calls
\* isDaemonRunning
BootCall(k) ==
    /\ boots[k].pc = "idle"
    /\ boots' = [boots EXCEPT ![k] =
                   [@ EXCEPT !.pc = "check",
                             !.atCall = [marker |-> marker,
                                         alive |-> {p \in Pids : Alive(p)},
                                         reachable |-> \E d \in Pids : Reachable(d),
                                         alone |-> Finished(k)]]]
    /\ live' = [live EXCEPT ![k] = [LiveIdle EXCEPT !.pc = "exists"]]
    /\ UNCHANGED <<daemon, client, peerClosed, marker, sockFile, procs, halt,
                   signals>>

\* isDaemonRunning returned true: ensureDaemonRunning returns
BootFound(k) ==
    /\ boots[k].pc = "check"
    /\ live[k].pc = "done" /\ live[k].result
    /\ boots' = [boots EXCEPT ![k] = [@ EXCEPT !.pc = "found"]]
    /\ UNCHANGED <<daemon, client, peerClosed, marker, sockFile, procs, live,
                   halt, signals>>

\* the steps of the branch up to the spawn, which are one synchronous block
Launch(had) == IF had THEN <<"unlink", "spawn">> ELSE <<"spawn">>

\* the pid of the next process the system creates
NextPid == SpawnPids[Cardinality({p \in Range(SpawnPids) : procs[p].pc # "none"}) + 1]

\* isDaemonRunning returned false: unlinkSync(SOCKET_PATH) when it exists,
\* spawn("bun", [daemon.ts], { detached: true }), and the pid is defined
BootSpawn(k) ==
    /\ boots[k].pc = "check"
    /\ live[k].pc = "done" /\ ~live[k].result
    /\ \E p \in Range(SpawnPids) : procs[p].pc = "none"
    /\ sockFile' = NoFile
    /\ procs' = [procs EXCEPT ![NextPid] = [pc |-> "spawned", term |-> FALSE]]
    /\ boots' = [boots EXCEPT ![k] =
                   [@ EXCEPT !.pc = "write", !.pid = NextPid,
                             !.trace = @ \o Launch(sockFile # NoFile)]]
    /\ UNCHANGED <<daemon, client, peerClosed, marker, live, halt, signals>>

\* the same block when the spawn yields no pid: `if (!pid) return`
BootSpawnFails(k) ==
    /\ boots[k].pc = "check"
    /\ live[k].pc = "done" /\ ~live[k].result
    /\ sockFile' = NoFile
    /\ boots' = [boots EXCEPT ![k] =
                   [@ EXCEPT !.pc = "nopid",
                             !.trace = @ \o Launch(sockFile # NoFile)]]
    /\ UNCHANGED <<daemon, client, peerClosed, marker, procs, live, halt,
                   signals>>

\* `await Bun.write(this.PID_FILE, String(pid))`
BootWrite(k) ==
    /\ boots[k].pc = "write"
    /\ marker' = [exists |-> TRUE, text |-> String(boots[k].pid)]
    /\ boots' = [boots EXCEPT ![k] =
                   [@ EXCEPT !.pc = "probe", !.trace = Append(@, "write")]]
    /\ UNCHANGED <<daemon, client, peerClosed, sockFile, procs, live, halt,
                   signals>>

\* one attempt of `await this.socketManager.connect()`: it connects when a
\* supervisor is reachable through the socket path; the attempt that fails
\* on the last pass makes connect return false, and the caller exits
BootProbe(k) ==
    /\ boots[k].pc = "probe"
    /\ boots' = [boots EXCEPT ![k] =
                   IF \E d \in Pids : Reachable(d)
                   THEN [@ EXCEPT !.pc = "confirmed",
                                  !.trace = Append(@, "probe")]
                   ELSE IF ProbeLast(@.attempts)
                   THEN [@ EXCEPT !.pc = "fatal",
                                  !.trace = @ \o <<"probe", "exit">>]
                   ELSE [@ EXCEPT !.attempts = @ + 1,
                                  !.trace = Append(@, "probe")]]
    /\ UNCHANGED <<daemon, client, peerClosed, marker, sockFile, procs, live,
                   halt, signals>>

\* ------------------------------------------------------------ Daemon.start

\* Daemon.start: `await this.cleanup()` unlinks SOCKET_PATH and PID_FILE
\* when they exist
DaemonCleanup(d) ==
    /\ procs[d].pc = "spawned" /\ ~procs[d].term
    /\ procs' = [procs EXCEPT ![d].pc = "init"]
    /\ sockFile' = NoFile
    /\ marker' = Absent
    /\ UNCHANGED <<daemon, client, peerClosed, live, boots, halt, signals>>

\* server.listen(SOCKET_PATH): the bind creates the socket file; when the
\* path exists the server emits "error", whose handler runs cleanup and
\* process.exit(1)
DaemonListen(d) ==
    /\ procs[d].pc = "init" /\ ~procs[d].term
    /\ IF sockFile = NoFile
       THEN /\ sockFile' = d
            /\ procs' = [procs EXCEPT ![d].pc = "bound"]
            /\ UNCHANGED marker
       ELSE /\ sockFile' = NoFile
            /\ marker' = Absent
            /\ procs' = [procs EXCEPT ![d].pc = "dead"]
    /\ UNCHANGED <<daemon, client, peerClosed, live, boots, halt, signals>>

\* the listen callback: `await Bun.write(PID_FILE, String(process.pid))`;
\* then the signal handlers are registered
DaemonWritePid(d) ==
    /\ procs[d].pc = "bound" /\ ~procs[d].term
    /\ marker' = [exists |-> TRUE, text |-> String(d)]
    /\ procs' = [procs EXCEPT ![d].pc = "serving"]
    /\ UNCHANGED <<daemon, client, peerClosed, sockFile, live, boots, halt,
                   signals>>

\* a pending SIGTERM is delivered: the handler, once registered, runs
\* cleanup (server.close(), unlink SOCKET_PATH and PID_FILE) and the process
\* goes on; before that the signal ends the process
DaemonTerm(d) ==
    /\ Alive(d) /\ procs[d].term
    /\ IF procs[d].pc \in {"serving", "closed"}
       THEN /\ procs' = [procs EXCEPT ![d] = [pc |-> "closed", term |-> FALSE]]
            /\ sockFile' = NoFile
            /\ marker' = Absent
       ELSE /\ procs' = [procs EXCEPT ![d] = [pc |-> "dead", term |-> FALSE]]
            /\ UNCHANGED <<sockFile, marker>>
    /\ UNCHANGED <<daemon, client, peerClosed, live, boots, halt, signals>>

\* ------------------------------------------------------------- stopDaemon

\* handleDaemonCommand("stop") calls stopDaemon; the command is run once,
\* or again when it has returned
StopCall ==
    /\ halt.pc \in {"idle", "returned"}
    /\ halt.calls < MaxStops
    /\ halt' = [HaltIdle EXCEPT !.pc = "exists", !.calls = halt.calls + 1]
    /\ UNCHANGED <<daemon, client, peerClosed, marker, sockFile, procs, live,
                   boots, signals>>

\* `if (!await pidFile.exists()) return`
StopExists ==
    /\ halt.pc = "exists"
    /\ halt' = [halt EXCEPT !.pc = IF marker.exists THEN "read" ELSE "returned"]
    /\ UNCHANGED <<daemon, client, peerClosed, marker, sockFile, procs, live,
                   boots, signals>>

\* what process.kill(pid) leaves of the caller: a signal to pid 0 goes to
\* the caller's own process group, and the command line, which handles no
\* SIGTERM, is ended by it or gets to its next statement first
AfterKill(pid) == IF pid = 0 THEN {"clear", "killed"} ELSE {"clear"}

\* `Number(await pidFile.text())`, `if (isNaN(pid))`, process.kill(pid)
StopRead ==
    /\ halt.pc = "read"
    /\ IF ~marker.exists \/ NotANumber(marker.text)
       THEN /\ halt' = [halt EXCEPT !.pc = "clear", !.text = marker.text,
                                    !.read = marker.exists]
            /\ UNCHANGED <<signals, procs>>
       ELSE LET pid == Number(marker.text).n
            IN /\ signals' = Append(signals, pid)
               /\ procs' = IF pid > 0 /\ Alive(pid)
                           THEN [procs EXCEPT ![pid].term = TRUE]
                           ELSE procs
               /\ \E next \in AfterKill(pid) :
                     halt' = [halt EXCEPT !.pc = next, !.text = marker.text,
                                          !.read = TRUE]
    /\ UNCHANGED <<daemon, client, peerClosed, marker, sockFile, live, boots>>

\* `await Bun.write(this.PID_FILE, "")`, and stopDaemon returns
StopClear ==
    /\ halt.pc = "clear"
    /\ marker' = Cleared
    /\ halt' = [halt EXCEPT !.pc = "returned"]
    /\ UNCHANGED <<daemon, client, peerClosed, sockFile, procs, live, boots,
                   signals>>

\* handleDaemonCommand with another argument: `await this.isDaemonRunning()`
StatusCall ==
    /\ live["status"].pc = "idle"
    /\ live' = [live EXCEPT !["status"] = [LiveIdle EXCEPT !.pc = "exists"]]
    /\ UNCHANGED <<daemon, client, peerClosed, marker, sockFile, procs, boots,
                   halt, signals>>

\* ---------------------------------------------- specifications of the host

\* the states a command line finds: no supervisor was ever started; one
\* serves; one was ended without its cleanup and left marker and socket
\* file, and a liveness check has or has not cleared the marker since; one
\* has handled a termination signal; the marker holds a text that is no pid
HostStarts ==
    {[marker |-> Absent, sockFile |-> NoFile, old |-> "none"],
     [marker |-> [exists |-> TRUE, text |-> "100"], sockFile |-> 100, old |-> "serving"],
     [marker |-> [exists |-> TRUE, text |-> "100"], sockFile |-> 100, old |-> "dead"],
     [marker |-> Cleared, sockFile |-> 100, old |-> "dead"],
     [marker |-> Absent, sockFile |-> NoFile, old |-> "closed"],
     [marker |-> Cleared, sockFile |-> NoFile, old |-> "closed"],
     [marker |-> [exists |-> TRUE, text |-> "0"], sockFile |-> NoFile, old |-> "none"],
     [marker |-> [exists |-> TRUE, text |-> "-5"], sockFile |-> NoFile, old |-> "none"],
     [marker |-> [exists |-> TRUE, text |-> "abc"], sockFile |-> NoFile, old |-> "none"]}

InitHost ==
    /\ InitDaemon
    /\ \E h \in HostStarts :
          /\ marker = h.marker
          /\ sockFile = h.sockFile
          /\ procs = [p \in Pids |-> IF p = 100 THEN [pc |-> h.old, term |-> FALSE]
                                              ELSE NoProc]

\* the bootstrap of command line k
Bootstrap(k) ==
    \/ BootCall(k)
    \/ LiveExists(k)
    \/ LiveRead(k)
    \/ LiveClear(k)
    \/ BootFound(k)
    \/ BootSpawn(k)
    \/ BootSpawnFails(k)
    \/ BootWrite(k)
    \/ BootProbe(k)

\* the start of a spawned supervisor
Startup(d) ==
    \/ DaemonCleanup(d)
    \/ DaemonListen(d)
    \/ DaemonWritePid(d)

\* one command line's bootstrap and the supervisor it spawns
NextEnsure ==
    \/ Bootstrap("cli1")
    \/ \E d \in Range(SpawnPids) : Startup(d)

SpecEnsure == InitHost /\ [][NextEnsure]_vars

\* the bootstraps of two command lines and the supervisors they spawn
NextBoot ==
    \/ \E k \in Clis : Bootstrap(k)
    \/ \E d \in Range(SpawnPids) : Startup(d)

SpecBoot == InitHost /\ [][NextBoot]_vars

\* the `daemon stop` path, the supervisor it signals, and the liveness
\* check of a `daemon` status command that runs after stopDaemon returned
NextStop ==
    \/ StopCall
    \/ StopExists
    \/ StopRead
    \/ StopClear
    \/ \E d \in Pids : DaemonTerm(d)
    \/ halt.pc = "returned" /\ StatusCall
    \/ LiveExists("status")
    \/ LiveRead("status")
    \/ LiveClear("status")

SpecStop == InitHost /\ [][NextStop]_vars

\* the command line's process runs until process.exit(1)
Running(k) == boots[k].pc # "fatal"

\* one command line: `new CLI()` calls ensureDaemonRunning and does not
\* await it, then handleCommand sends the command's request; a socket
\* connects when a supervisor is reachable and reports an error when not
NextCli ==
    \/ Bootstrap("cli1")
    \/ \E d \in Range(SpawnPids) : Startup(d)
    \/ /\ boots["cli1"].pc # "idle" /\ Running("cli1")
       /\ CallSendMessage(DefaultRetries)
    \/ /\ Running("cli1") /\ \E d \in Pids : Reachable(d)
       /\ SendConnect
    \/ /\ Running("cli1") /\ send.pc = "connecting"
       /\ ~\E d \in Pids : Reachable(d)
       /\ SendError
    \/ Running("cli1") /\ SendRetry
    \/ Running("cli1") /\ SendDataComplete(TRUE)

SpecCli == InitHost /\ [][NextCli]_vars

\* the client of an attach session closes its connection (the command
\* line ends); the daemon's connection handler registers a handler for
\* "data" only, so nothing in the daemon runs
PeerClose(c) ==
    /\ c \notin peerClosed
    /\ c \notin sockEnded
    /\ \E s \in sessions : s.conn = c
    /\ peerClosed' = peerClosed \cup {c}
    /\ UNCHANGED <<daemon, client, marker, sockFile, procs, live, boots, halt,
                   signals>>

\* one process, its output, the attach sessions of two connections, and
\* the end of a session
NextTail ==
    \/ \E a \in LogStarts :
          /\ config = <<>> /\ CanSend("ctl", RequestsPerConnection)
          /\ ReqStart("ctl", a.script, a.options) /\ Whole("ctl")
    \/ \E p \in pendingStart : StartReply(p)
    \/ \E c \in AttachConns, id \in 0 .. LogTime :
          /\ Len(sockOut[c]) + AttachWrites(id) <= LogOut /\ Idle(c)
          /\ c \notin peerClosed
          /\ ReqAttach(c, id) /\ Whole(c)
    \/ \E i \in 1 .. Len(config), isError \in BOOLEAN :
          /\ SumLen(emitted) < LogEmit
          /\ \A c \in Range(pushProxies[i]) : Len(sockOut[c]) < LogOut
          /\ ChildOutput(i, isError)
    \/ \E c \in AttachConns : PeerClose(c)

SpecTail == Init /\ [][NextTail]_vars

\* case "start" when Bun.spawn throws: manager.start rejects before it has
\* registered anything and the catch of the handler answers
ReqStartThrows(c) == ReqInvalidFormat(c)

\* `await this.saveConfig()` rejects: manager.start rejects after the child
\* was spawned and the record was registered, the statements after the
\* await do not run, and the catch of the handler answers
StartSaveFails(p) ==
    /\ p \in pendingStart
    /\ p.conn \notin sockEnded
    /\ pendingStart' = pendingStart \ {p}
    /\ sockOut' = [sockOut EXCEPT
                     ![p.conn] = Append(@, Frame([error |-> "Invalid message format"]))]
    /\ UNCHANGED <<now, config, processes, logs, pushProxies, exitCode, killed,
                   emitted, stopSeen, sockEnded, sessions, transport, lastLogs,
                   client, host>>

\* start requests, the ways manager.start ends, and list requests
NextStart ==
    \/ now < MaxTime /\ Tick
    \/ \E a \in RegistryStarts :
          /\ Len(config) < MaxProcs /\ CanSend("ctl", RequestsPerConnection)
          /\ ReqStart("ctl", a.script, a.options) /\ Whole("ctl")
    \/ /\ CanSend("ctl", RequestsPerConnection)
       /\ ReqStartThrows("ctl") /\ Whole("ctl")
    \/ \E p \in pendingStart : StartReply(p)
    \/ \E p \in pendingStart : StartSaveFails(p)
    \/ CanSend("ctl", RequestsPerConnection) /\ ReqList("ctl") /\ Whole("ctl")
    \/ Reconnect("ctl")

SpecStart == Init /\ [][NextStart]_vars

\* the connection the k-th attempt of a call of sendMessage opens: every
\* attempt is a `new Socket()`
AttemptConn(k) == <<"ctl", "tail1", "tail2">>[k]

\* the daemon has run its handler for the request written to connection c
Handled(c) == sockOut[c] # <<>> \/ \E p \in pendingStart : p.conn = c

\* one call of sendMessage with a start request, and the daemon: the
\* request an attempt wrote is handled on that attempt's connection, the
\* response reaches the attempt that is still waiting, and an attempt that
\* has seen no response for 5000 ms times out
NextRetry ==
    \/ now < MaxTime /\ Tick
    \/ CallSendMessage(DefaultRetries)
    \/ SendConnect
    \/ \E a \in RegistryStarts, k \in 1 .. DefaultRetries :
          /\ send.pc # "idle" /\ k <= Len(send.sockets)
          /\ send.sockets[k].writes > 0
          /\ ~Handled(AttemptConn(k))
          /\ a.script = "a.js"
          /\ ReqStart(AttemptConn(k), a.script, a.options)
          /\ Whole(AttemptConn(k))
    \/ \E p \in pendingStart : StartReply(p)
    \/ /\ send.pc = "waiting"
       /\ sockOut[AttemptConn(Len(send.sockets))] # <<>>
       /\ SendDataComplete(TRUE)
    \/ /\ send.pc = "waiting"
       /\ sockOut[AttemptConn(Len(send.sockets))] = <<>>
       /\ SendTimeout
    \/ SendRetry

SpecRetry == Init /\ [][NextRetry]_vars

\* what keeps the event loop of supervisor d alive once its server is
\* closed: a child whose pipes and `exited` promise are open, a request
\* whose handler has not answered, an attach connection its client holds
EventLoopBusy ==
    \/ \E i \in 1 .. Len(config) : exitCode[i] = Null
    \/ pendingStart # {}
    \/ \E s \in sessions : s.conn \notin peerClosed

\* the SIGINT and SIGTERM handlers run cleanup and call no process.exit:
\* the process ends when nothing is left on its event loop
DaemonDrained(d) ==
    /\ procs[d].pc = "closed"
    /\ ~EventLoopBusy
    /\ procs' = [procs EXCEPT ![d].pc = "dead"]
    /\ UNCHANGED <<daemon, client, peerClosed, marker, sockFile, live, boots,
                   halt, signals>>

\* the serving supervisor, its children and connections, and a `daemon
\* stop` command that signals it
NextTerm ==
    \/ now < MaxTime /\ Tick
    \/ \E a \in RegistryStarts :
          /\ procs[100].pc = "serving"
          /\ Len(config) < FewProcs /\ CanSend("ctl", RequestsPerConnection)
          /\ ReqStart("ctl", a.script, a.options) /\ Whole("ctl")
    \/ \E p \in pendingStart : StartReply(p)
    \/ \E id \in 0 .. MaxTime :
          /\ procs[100].pc = "serving" /\ Idle("tail1")
          /\ ReqAttach("tail1", id) /\ Whole("tail1")
    \/ PeerClose("tail1")
    \/ \E i \in 1 .. Len(config), code \in ExitCodes :
          /\ ShouldRestart(code, config[i].args) => Len(config) < FewProcs
          /\ ChildExit(i, code)
    \/ StopCall
    \/ StopExists
    \/ StopRead
    \/ StopClear
    \/ DaemonTerm(100)
    \/ DaemonDrained(100)

\* the command line runs its statements, a signal sent is delivered, a
\* handler that awaits its write resumes, and a process with an empty event
\* loop ends; nothing makes a child exit or a client close its connection
SpecTerm ==
    /\ Init /\ [][NextTerm]_vars
    /\ WF_vars(StopExists \/ StopRead \/ StopClear)
    /\ WF_vars(\E p \in pendingStart : StartReply(p))
    /\ WF_vars(DaemonTerm(100))
    /\ WF_vars(DaemonDrained(100))

\* the command line's process has not ended: by process.exit(1) in its
\* bootstrap, or by the signal process.kill(0) sent to its own group
CliRuns == Running("cli1") /\ halt.pc # "killed"

\* one invocation of `bm2 daemon stop` or of `bm2 daemon`: `new CLI()` has
\* called ensureDaemonRunning, which is not awaited, before handleCommand
\* reaches handleDaemonCommand; the bootstrap and the command then run
\* interleaved at their awaits
NextDaemonCmd ==
    \/ CliRuns /\ Bootstrap("cli1")
    \/ \E d \in Range(SpawnPids) : Startup(d)
    \/ /\ boots["cli1"].pc # "idle" /\ CliRuns
       /\ halt.pc = "idle" /\ live["status"].pc = "idle"
       /\ StopCall
    \/ CliRuns /\ StopExists
    \/ CliRuns /\ StopRead
    \/ CliRuns /\ StopClear
    \/ /\ boots["cli1"].pc # "idle" /\ CliRuns
       /\ halt.pc = "idle"
       /\ StatusCall
    \/ CliRuns /\ LiveExists("status")
    \/ CliRuns /\ LiveRead("status")
    \/ CliRuns /\ LiveClear("status")
    \/ \E d \in Pids : DaemonTerm(d)

SpecDaemonCmd == InitHost /\ [][NextDaemonCmd]_vars

\* ------------------------------------------------------------ CLI.handleStop

\* the arguments of `bm2 stop`: none, or a process id
StopArgs == {<<>>} \cup {<<id>> : id \in 0 .. MaxTime}

\* response.status: undefined when the document has no such property
StatusOf(doc) == IF "status" \in DOMAIN doc THEN doc.status ELSE "undefined"

\* the document call m of sendMessage resolved with: the line the daemon
\* wrote to the connection of the attempt that returned
Response(m) == sockOut[AttemptConn(Len(m.sockets))][1].doc

\* handleStop up to its await: `if (!processId)` logs and returns, else
\* sendMessage({ type: "stop", processId }) is called
HandleStop(args) ==
    /\ cli.command = "none"
    /\ send.pc = "idle"
    /\ IF args = <<>>
       THEN /\ cli' = [command |-> "stop", args |-> args,
                       logged |-> <<"Provide a process ID">>]
            /\ UNCHANGED send
       ELSE /\ cli' = [command |-> "stop", args |-> args, logged |-> <<>>]
            /\ send' = Entered(DefaultRetries)
    /\ UNCHANGED <<daemon, host, probe>>

\* handleStop after its await: `if (response.status === "ok")` logs
\* "Process ... stopped", else "Failed to stop process ..."
HandleStopResumes ==
    /\ cli.command = "stop" /\ cli.logged = <<>>
    /\ send.pc = "returned"
    /\ cli' = [cli EXCEPT !.logged =
                 <<IF StatusOf(Response(send)) = "ok"
                   THEN "Process stopped"
                   ELSE "Failed to stop process">>]
    /\ UNCHANGED <<daemon, host, send, probe>>

\* sendMessage threw: handleStop and handleCommand reject and the catch of
\* main logs "Fatal error in main:" and calls process.exit(1)
MainCatch ==
    /\ cli.command = "stop" /\ cli.logged = <<>>
    /\ send.pc = "threw"
    /\ cli' = [cli EXCEPT !.logged = <<"Fatal error in main">>]
    /\ UNCHANGED <<daemon, host, send, probe>>

\* processes started by earlier command lines, and one `bm2 stop`: the
\* request of an attempt is handled on that attempt's connection, the
\* response reaches the attempt that waits, an attempt fails to connect or
\* times out, and the command logs its outcome
NextStopCmd ==
    \/ now < MaxTime /\ Tick
    \/ \E a \in RegistryStarts :
          /\ cli.command = "none"
          /\ Len(config) < FewProcs /\ CanSend("ctl", RequestsPerConnection)
          /\ ReqStart("ctl", a.script, a.options) /\ Whole("ctl")
    \/ \E p \in pendingStart : StartReply(p)
    \/ cli.command = "none" /\ Reconnect("ctl")
    \/ \E args \in StopArgs :
          /\ sockOut["ctl"] = <<>> /\ Idle("ctl")
          /\ HandleStop(args)
    \/ SendConnect
    \/ send.pc = "connecting" /\ SendError
    \/ SendRetry
    \/ \E k \in 1 .. DefaultRetries :
          /\ send.pc # "idle" /\ k <= Len(send.sockets)
          /\ send.sockets[k].writes > 0
          /\ ~Handled(AttemptConn(k))
          /\ ReqStop(AttemptConn(k), cli.args[1])
          /\ Whole(AttemptConn(k))
    \/ /\ send.pc = "waiting"
       /\ sockOut[AttemptConn(Len(send.sockets))] # <<>>
       /\ SendDataComplete(TRUE)
    \/ /\ send.pc = "waiting"
       /\ sockOut[AttemptConn(Len(send.sockets))] = <<>>
       /\ SendTimeout
    \/ HandleStopResumes
    \/ MainCatch

SpecStopCmd == Init /\ [][NextStopCmd]_vars

\* ================================================================== claims

\* the maximum a start request configured: maxLogLines, 1000 when not given
ConfiguredMax(i) ==
    IF config[i].args.maxLogLines = NotGiven
    THEN 1000 ELSE config[i].args.maxLogLines

\* the log entries written to connection c, in the order written
IsLogDoc(d) == "message" \in DOMAIN d
LogDocs(c) ==
    LET fs == SelectSeq(sockOut[c], LAMBDA f : IsLogDoc(f.doc))
    IN [k \in 1 .. Len(fs) |-> fs[k].doc]

\* the entries connection s.conn received after the replay of session s
LiveDocs(s) ==
    LET d == LogDocs(s.conn)
    IN IF Len(d) <= Len(s.snap) THEN <<>> ELSE SubSeq(d, Len(s.snap) + 1, Len(d))

Occurrences(seq, x) == Cardinality({k \in 1 .. Len(seq) : seq[k] = x})

C2_AllForwarded ==
    \A s \in sessions :
        LiveDocs(s) = SubSeq(emitted[s.ref], s.at + 1, Len(emitted[s.ref]))

\* C3: an attach request on a registered id whose retained log holds M entries
\* sends exactly those M entries, in retained order, each as one
\* newline-terminated document, before any entry appended later, and the first
\* entry appended after the request is forwarded: nothing falls in a gap.
C3_ReplayThenTail ==
    \A s \in sessions :
        LET d == LogDocs(s.conn)
            before == SubSeq(emitted[s.ref], 1, s.at)
            M == Min(s.at, ConfiguredMax(s.ref))
        IN /\ Len(d) >= M
           /\ SubSeq(d, 1, M) = SubSeq(before, s.at - M + 1, s.at)
           /\ \A k \in 1 .. Len(sockOut[s.conn]) : sockOut[s.conn][k].term = "\n"
           /\ \A k \in M + 1 .. Len(d) : d[k].message > s.at
           /\ Len(emitted[s.ref]) > s.at =>
                 /\ Len(d) > M
                 /\ d[M + 1] = emitted[s.ref][s.at + 1]

\* a session replayed a non-empty log and an entry was appended afterwards
C3_Witness ==
    \E s \in sessions :
        /\ s.at >= 1
        /\ Len(s.snap) >= 1
        /\ Len(emitted[s.ref]) > s.at

\* C4: with two attach sessions on different connections open on the same
\* process, each entry appended afterwards is delivered to both sessions,
\* exactly once each.
C4_FanOut ==
    \A s1, s2 \in sessions :
        (s1.conn # s2.conn /\ s1.ref = s2.ref) =>
            \A k \in 1 .. Len(emitted[s1.ref]) :
                (k > s1.at /\ k > s2.at) =>
                    /\ Occurrences(LiveDocs(s1), emitted[s1.ref][k]) = 1
                    /\ Occurrences(LiveDocs(s2), emitted[s1.ref][k]) = 1

\* the ids start has returned so far (one per ProcessInfo created)
Ids == {config[i].id : i \in 1 .. Len(config)}

\* the Map holds an entry that refers to object i
Registered(m, i) == \E k \in 1 .. Len(m) : m[k].ref = i

\* the child of object i exits with `code` in this step
Exits(i, code) == exitCode[i] = Null /\ exitCode'[i] = code

\* C5: every call to start returns an id different from every id returned
\* before, so a start never overwrites an existing registry record.
C5_UniqueIds ==
    \A i, j \in 1 .. Len(config) : i # j => config[i].id # config[j].id

\* C6: when a child started with restart = true exits with a non-zero code,
\* start is called again with the same script and options and registers a new
\* record under a new id, with status running, while the old record stays in
\* the registry.
C6_RestartRegistersNew ==
    [][\A i \in 1 .. Len(config) : \A code \in ExitCodes \ {0} :
          (Exits(i, code) /\ config[i].args.restart = "true") =>
              /\ Len(config') = Len(config) + 1
              /\ LET new == Len(config')
                 IN /\ config'[new].script = config[i].script
                    /\ config'[new].args = config[i].args
                    /\ config'[new].id \notin Ids
                    /\ Registered(processes', new)
                    /\ exitCode'[new] = Null
              /\ Registered(processes, i) => Registered(processes', i)]_vars

\* C7: when a child exits with restart unset or false, or with code 0, the
\* exit adds no record to the registry and the exited record keeps its id and
\* script.
C7_NoRestartOtherwise ==
    [][\A i \in 1 .. Len(config) : \A code \in ExitCodes :
          (Exits(i, code) /\ (config[i].args.restart # "true" \/ code = 0)) =>
              /\ processes' = processes
              /\ config' = config]_vars

\* a restart = true child exited with code 0 and a restart = false child
\* exited with a non-zero code
C7_Witness ==
    \E i, j \in 1 .. Len(config) :
        /\ config[i].args.restart = "true" /\ exitCode[i] = 0
        /\ config[j].args.restart = "false" /\ exitCode[j] \notin {Null, 0}

\* the entries of list() whose child has exited
ExitedListed == {k \in 1 .. Len(processes) : exitCode[processes[k].ref] # Null}

C9_RunningUntilStopOrExit ==
    \A i \in 1 .. Len(config) :
        (/\ \A p \in pendingStart : p.ref # i
         /\ exitCode[i] = Null
         /\ ~stopSeen[i]) =>
            \E k \in 1 .. Len(list) :
                list[k].id = config[i].id /\ list[k].status = "running"

\* the records started and not stopped, in the order they were registered
NotStopped == SelectSeq([i \in 1 .. Len(config) |-> i], LAMBDA i : ~stopSeen[i])

\* C10: list() returns exactly one entry per record started and not yet
\* stopped, exited ones included, in the order the records were registered.
C10_ListIsRegistry ==
    /\ Len(list) = Len(NotStopped)
    /\ \A k \in 1 .. Len(list) :
          /\ processes[k].ref = NotStopped[k]
          /\ list[k].id = config[NotStopped[k]].id

\* C11: stop(id) on a registered id sends a kill to the child and removes the
\* record in the same step, without waiting for the child to exit (the child's
\* exit code is what it was), and every later list() omits the id.
C11_StopKillsAndForgets ==
    /\ [][\A id \in 0 .. MaxTime :
            (MapHas(processes, id) /\ ReqStop("ctl", id)) =>
                /\ killed'[Ref(id)]
                /\ ~MapHas(processes', id)
                /\ exitCode' = exitCode]_vars
    /\ [](\A i \in 1 .. Len(config) :
            stopSeen[i] => \A k \in 1 .. Len(list) : list[k].id # config[i].id)

\* C12: a stop request for an id that is not in the registry is answered with
\* the stopped acknowledgement, not an error, and leaves the registry, every
\* log buffer and every child unchanged.
C12_StopUnknownIsNoOp ==
    [][\A id \in 0 .. MaxTime :
          (/\ Len(sockOut'["ctl"]) > Len(sockOut["ctl"])
           /\ ~MapHas(processes, id)
           /\ ReqStop("ctl", id)) =>
              /\ sockOut'["ctl"] = Append(sockOut["ctl"], Frame([status |-> "stopped"]))
              /\ processes' = processes
              /\ config' = config
              /\ logs' = logs
              /\ killed' = killed
              /\ exitCode' = exitCode]_vars

\* a stop request was answered on this connection while every record created
\* is still registered and no child was ever killed: its id was unknown
C12_Witness ==
    /\ sockOut["ctl"] = <<Frame([status |-> "stopped"])>>
    /\ processes # <<>>
    /\ Len(processes) = Len(config)
    /\ \A i \in 1 .. Len(config) : ~killed[i]

\* the slice the contract of getLogs describes, for a log l: empty for a start
\* index outside 0 .. Len(l) - 1, else the entries at the 0-based indexes
\* startIndex .. min(startIndex + count, Len(l)) - 1
ContractSlice(l, startIndex, count) ==
    IF startIndex < 0 \/ startIndex >= Len(l)
    THEN <<>>
    ELSE LET to == Min(startIndex + count, Len(l))
         IN [k \in 1 .. Max(to - startIndex, 0) |-> l[startIndex + k]]

\* C13: getLogs(id, start, count) fails with NotFound for an unknown id; for a
\* known id with a start at or beyond the retained length, or negative, it
\* returns an empty slice; otherwise it returns the contiguous entries from
\* index start up to min(start+count, length), in order; and it never modifies
\* the log.
C13_GetLogsSlice ==
    /\ [](lastLogs.called =>
            /\ ~lastLogs.known => lastLogs.result.threw
            /\ lastLogs.known =>
                  /\ ~lastLogs.result.threw
                  /\ lastLogs.result.logs =
                        ContractSlice(lastLogs.of, lastLogs.startIndex,
                                      lastLogs.count))
    /\ [][lastLogs' # lastLogs => logs' = logs]_vars

\* the chunk the next "data" event of connection c hands over when it
\* delivers n pieces, and the input accumulated with it
Chunk(c, n) == SubSeq(stream[c], delivered[c] + 1, delivered[c] + n)
Accumulated(c, n) == buffer[c] \o Chunk(c, n)

\* the pieces are one request document and its newline
OneRequest(buf) == Len(buf) = 2 /\ buf[1].tok = "text" /\ buf[2].tok = "nl"

\* startIndex and count of a logs request, with the defaults of getLogs
RequestedStart(msg) == IF "startIndex" \in DOMAIN msg THEN msg.startIndex ELSE 0
RequestedCount(msg) == IF "count" \in DOMAIN msg THEN msg.count ELSE 200

\* C14: a logs request carrying startIndex s and count c is answered with the
\* slice getLogs(id, s, c): the retained entries from index s, at most c of
\* them.
C14_LogsHonoursRange ==
    [][\A n \in 1 .. 2 * ReqDocs :
          (/\ Data("ctl", n)
           /\ OneRequest(Accumulated("ctl", n))
           /\ Accumulated("ctl", n)[1].doc.type = "logs"
           /\ MapHas(processes, Accumulated("ctl", n)[1].doc.processId)) =>
              LET msg == Accumulated("ctl", n)[1].doc
                  l == logs[Ref(msg.processId)]
              IN sockOut'["ctl"] =
                    Append(sockOut["ctl"],
                           Frame([status |-> "ok",
                                  logs |-> ContractSlice(l, RequestedStart(msg),
                                                         RequestedCount(msg))]))]_vars

\* the start requests of connection c that await their response
Pending(c) == {p \in pendingStart : p.conn = c}

\* exactly one document, newline-terminated, is written in this step, and it
\* is written to connection c
WritesOne(c) ==
    /\ Len(sockOut'[c]) = Len(sockOut[c]) + 1
    /\ SubSeq(sockOut'[c], 1, Len(sockOut[c])) = sockOut[c]
    /\ sockOut'[c][Len(sockOut'[c])].term = "\n"
    /\ \A d \in Conns \ {c} : sockOut'[d] = sockOut[d]

\* the supervisor's state: registry, records, children, logs, subscribers
Supervisor ==
    <<config, processes, logs, pushProxies, exitCode, killed, emitted, sessions>>

\* C15: for each Start, Stop, List or Logs request, the listener writes exactly
\* one newline-terminated response on the same connection (for Start, when the
\* start has completed), and it dispatches nothing and writes nothing while the
\* connection's accumulated input does not end in a newline.
C15_OneResponsePerRequest ==
    /\ [][\A n \in 1 .. 2 * ReqDocs :
            LET buf == Accumulated("ctl", n)
            IN /\ (/\ Data("ctl", n) /\ OneRequest(buf)
                   /\ buf[1].doc.type \in {"stop", "list", "logs"}) =>
                      WritesOne("ctl") /\ pendingStart' = pendingStart
               /\ (Data("ctl", n) /\ OneRequest(buf) /\ buf[1].doc.type = "start") =>
                      /\ sockOut' = sockOut
                      /\ Cardinality(Pending("ctl")') = Cardinality(Pending("ctl")) + 1
               /\ (Data("ctl", n) /\ buf[Len(buf)].tok # "nl") =>
                      /\ sockOut' = sockOut
                      /\ pendingStart' = pendingStart
                      /\ Supervisor' = Supervisor]_vars
    /\ [][\A p \in pendingStart :
            p \notin pendingStart' => WritesOne(p.conn) /\ Supervisor' = Supervisor]_vars
    /\ [](Len(sockOut["ctl"]) + Cardinality(Pending("ctl")) <= delivered["ctl"] \div 2)

\* a request was answered, and the first part of a second one is accumulated
C15_Witness ==
    /\ Len(sockOut["ctl"]) = 1
    /\ "status" \in DOMAIN sockOut["ctl"][1].doc
    /\ buffer["ctl"] # <<>>
    /\ buffer["ctl"][1].tok = "text"

\* the accumulated input is a line the dispatch fails on: no JSON document,
\* an unrecognized type, or a logs request for an unregistered id
Faulty(buf) ==
    /\ buf[Len(buf)].tok = "nl"
    /\ \/ ~OneRequest(buf)
       \/ buf[1].doc.type \notin {"start", "stop", "list", "logs", "attach"}
       \/ buf[1].doc.type = "logs" /\ ~MapHas(processes, buf[1].doc.processId)

\* C16: a request that cannot be parsed, has an unrecognized type, or whose
\* dispatch throws gets one Error response; afterwards the connection's buffer
\* is empty and the connection stays open, and a following valid request on the
\* same connection (here: list) is handled normally.
C16_FaultAnsweredConnectionKept ==
    [][\A n \in 1 .. 2 * ReqDocs :
          LET buf == Accumulated("ctl", n)
          IN /\ (Data("ctl", n) /\ Faulty(buf)) =>
                    /\ WritesOne("ctl")
                    /\ "error" \in DOMAIN sockOut'["ctl"][Len(sockOut'["ctl"])].doc
                    /\ buffer'["ctl"] = <<>>
                    /\ "ctl" \notin sockEnded'
                    /\ pendingStart' = pendingStart
                    /\ Supervisor' = Supervisor
             /\ (Data("ctl", n) /\ OneRequest(buf) /\ buf[1].doc.type = "list") =>
                    sockOut'["ctl"] =
                       Append(sockOut["ctl"], Frame([status |-> "ok", list |-> list]))]_vars

\* a faulty request was answered with an error and the next request on the
\* connection, a valid one, with its result
C16_Witness ==
    /\ Len(sockOut["ctl"]) = 2
    /\ "error" \in DOMAIN sockOut["ctl"][1].doc
    /\ "status" \in DOMAIN sockOut["ctl"][2].doc
    /\ "ctl" \notin sockEnded

\* the accumulated input is two complete request documents
TwoRequests(buf) ==
    /\ Len(buf) = 4
    /\ buf[1].tok = "text" /\ buf[2].tok = "nl"
    /\ buf[3].tok = "text" /\ buf[4].tok = "nl"

\* C17: two complete request documents accumulated on one connection before the
\* listener processes them are parsed as one malformed document: the listener
\* sends a single Error response, executes neither request, and clears the
\* buffer.
C17_CoalescedIsOneError ==
    [][\A n \in 1 .. 2 * ReqDocs :
          (Data("ctl", n) /\ TwoRequests(Accumulated("ctl", n))) =>
              /\ sockOut'["ctl"] =
                    Append(sockOut["ctl"], Frame([error |-> "Invalid message format"]))
              /\ \A d \in Conns \ {"ctl"} : sockOut'[d] = sockOut[d]
              /\ buffer'["ctl"] = <<>>
              /\ pendingStart' = pendingStart
              /\ stopSeen' = stopSeen
              /\ sockEnded' = sockEnded
              /\ Supervisor' = Supervisor]_vars

\* a start and a stop request were delivered together: one error was written
\* and nothing was started
C17_Witness ==
    /\ Len(stream["ctl"]) = 4 /\ delivered["ctl"] = 4
    /\ stream["ctl"][1].tok = "text" /\ stream["ctl"][1].doc.type = "start"
    /\ stream["ctl"][3].tok = "text" /\ stream["ctl"][3].doc.type = "stop"
    /\ sockOut["ctl"] = <<Frame([error |-> "Invalid message format"])>>
    /\ config = <<>>

\* C18: an attach request for an id not in the registry gets one Error
\* response, after which the listener closes that connection; no subscriber is
\* registered and the registry is unchanged.
C18_AttachUnknownIsTerminal ==
    [][\A c \in AttachConns : \A id \in 0 .. LogTime :
          (~MapHas(processes, id) /\ ReqAttach(c, id)) =>
              /\ sockOut'[c] = Append(sockOut[c], Frame([error |-> "Not found"]))
              /\ \A d \in Conns \ {c} : sockOut'[d] = sockOut[d]
              /\ c \in sockEnded'
              /\ pushProxies' = pushProxies
              /\ sessions' = sessions
              /\ processes' = processes
              /\ config' = config]_vars

\* an attach for an unregistered id was refused while a record is registered
C18_Witness ==
    /\ processes # <<>>
    /\ \E c \in AttachConns :
          /\ c \in sockEnded
          /\ sockOut[c] # <<>>
          /\ sockOut[c][Len(sockOut[c])] = Frame([error |-> "Not found"])

\* C19: sendMessage makes at most `retries` attempts; each attempt opens a new
\* connection, writes exactly one framed request (once connected) and waits for
\* one framed response or the 5-second timeout; it returns the first response
\* received, waits a fixed delay between failed attempts, and after the last
\* failed attempt throws that attempt's error, so it always terminates.
C19_SendMessageBoundedRetries ==
    /\ [](send.pc # "idle" =>
            /\ Len(send.sockets) <= send.retries
            /\ \A k \in 1 .. Len(send.sockets) :
                  /\ send.sockets[k].writes = (IF send.sockets[k].connected THEN 1 ELSE 0)
                  /\ send.sockets[k].timeout = 5000
                  /\ k < Len(send.sockets) =>
                        send.sockets[k].outcome \notin {"pending", "response"}
            /\ Len(send.slept) = Max(Len(send.sockets) - 1, 0)
            /\ \A k \in 1 .. Len(send.slept) : send.slept[k] = 1000
            /\ send.pc = "returned" => Current(send).outcome = "response"
            /\ (send.pc = "threw" /\ send.retries > 0) =>
                  /\ Len(send.sockets) = send.retries
                  /\ send.thrown = Current(send).outcome
                  /\ send.thrown \notin {"pending", "response", "none"})
    /\ [][send.pc \in {"returned", "threw"} => send' = send]_vars
    /\ (send.pc # "idle" ~> send.pc \in {"returned", "threw"})

\* C20: the reachability probe (connect) makes at most 5 connection attempts
\* with a fixed delay between them, sends no request, returns true at the first
\* successful connection and false only after all 5 attempts failed, and it
\* terminates; its retry count and delay do not depend on sendMessage's.
C20_ProbeFiveAttempts ==
    /\ [](probe.pc # "idle" =>
            /\ Len(probe.sockets) <= 5
            /\ \A k \in 1 .. Len(probe.sockets) :
                  /\ probe.sockets[k].writes = 0
                  /\ k < Len(probe.sockets) =>
                        probe.sockets[k].outcome \in {"socket error", "Socket timeout"}
            /\ Len(probe.slept) = Len(probe.sockets) - 1
            /\ \A k \in 1 .. Len(probe.slept) : probe.slept[k] = 1000
            /\ probe.pc = "true" => Current(probe).connected
            /\ probe.pc = "false" =>
                  /\ Len(probe.sockets) = 5
                  /\ \A k \in 1 .. 5 : ~probe.sockets[k].connected)
    /\ [][probe.pc \in {"true", "false"} => probe' = probe]_vars
    /\ (probe.pc # "idle" ~> probe.pc \in {"true", "false"})

\* the probe returned false after five failed attempts while a sendMessage
\* called with retries = 1 threw after its only attempt
C20_Witness ==
    /\ probe.pc = "false"
    /\ Len(probe.sockets) = 5
    /\ send.pc = "threw" /\ send.retries = 1

\* C27: stopping a registered process that was started with restart = true does
\* not trigger the restart policy: the exit of a child that stop killed
\* registers no new record.
C27_StopSuppressesRestart ==
    [][\A i \in 1 .. Len(config) : \A code \in ExitCodes :
          (Exits(i, code) /\ killed[i]) =>
              /\ config' = config
              /\ processes' = processes]_vars

\* the liveness the marker and the process table stood for when the call
\* was made: the marker exists, holds a valid positive pid, and that pid
\* answers the zero-signal probe
FoundAlive(at) ==
    /\ at.marker.exists
    /\ at.marker.text # ""
    /\ ~Number(at.marker.text).nan
    /\ Number(at.marker.text).n > 0
    /\ Number(at.marker.text).n \in at.alive

\* the probes of a bootstrap's trace
Probes(trace) == SelectSeq(trace, LAMBDA e : e = "probe")

\* the steps of the spawning branch in their order: the removal of the
\* socket file when there was one, the launch, the marker write, the passes
\* of the probe, the exit
InOrder(trace, had) ==
    \E n \in 0 .. ProbeAttempts, w \in 0 .. 1, x \in 0 .. 1 :
       /\ w = 0 => n = 0
       /\ x = 1 => n = ProbeAttempts
       /\ trace = Launch(had) \o [i \in 1 .. w |-> "write"]
                    \o [i \in 1 .. n |-> "probe"] \o [i \in 1 .. x |-> "exit"]

\* what a call of ensureDaemonRunning has done, against what it found
EnsureOutcome(b) ==
    /\ b.pc \in {"found", "write", "probe", "confirmed", "nopid", "fatal"} =>
           (b.trace # <<>> <=> ~FoundAlive(b.atCall))
    /\ b.pc = "found" => b.pid = NoPid /\ b.trace = <<>>
    /\ b.trace # <<>> => InOrder(b.trace, TRUE) \/ InOrder(b.trace, FALSE)
    /\ b.pc \in {"write", "probe", "confirmed", "fatal"} =>
           b.pid # NoPid /\ procs[b.pid].pc # "none"
    /\ b.pc \in {"probe", "confirmed", "fatal"} => "write" \in Range(b.trace)
    /\ b.pc = "confirmed" => Len(Probes(b.trace)) \in 1 .. ProbeAttempts
    /\ b.pc = "fatal" <=> "exit" \in Range(b.trace)
    /\ b.pc = "fatal" => Len(Probes(b.trace)) = ProbeAttempts

\* what a step of ensureDaemonRunning does: the launch leaves no socket
\* file and the marker as it was, the marker is then written with the pid
\* of the process launched, and the probe connects only to a reachable
\* supervisor and fails for good only when none is reachable
EnsureStep(b, c) ==
    /\ (b.pc = "check" /\ c.pc \in {"write", "nopid"}) =>
           /\ sockFile' = NoFile
           /\ marker' = marker
           /\ (sockFile # NoFile <=> "unlink" \in Range(c.trace))
    /\ (b.pc = "write" /\ c.pc = "probe") =>
           /\ marker' = [exists |-> TRUE, text |-> String(b.pid)]
           /\ Number(marker'.text) = Num(b.pid)
    /\ (b.pc = "probe" /\ c.pc = "confirmed") => \E d \in Pids : Reachable(d)
    /\ (b.pc = "probe" /\ c.pc = "fatal") => ~\E d \in Pids : Reachable(d)

\* C21: ensureDaemonRunning spawns a supervisor exactly when the marker is
\* absent, holds no valid positive pid, or names a pid that fails the
\* zero-signal probe; the steps of the spawning branch occur in the order
\* socket file removal, launch, marker write, reachability probe; the probe
\* makes at most five passes and the call exits fatally exactly when the
\* fifth pass fails.
C21_EnsureSpawnsWhenNotAlive ==
    /\ [](EnsureOutcome(boots["cli1"]))
    /\ [][EnsureStep(boots["cli1"], boots'["cli1"])]_vars

\* the bootstrap found a marker naming a process that is gone and a socket
\* file, removed the file, launched a supervisor, wrote its pid and its
\* probe connected on a later pass than the first
C21_Witness ==
    LET b == boots["cli1"]
    IN /\ b.pc = "confirmed"
       /\ b.atCall.marker = [exists |-> TRUE, text |-> "100"]
       /\ b.trace = <<"unlink", "spawn", "write", "probe", "probe">>

\* C22: a call of ensureDaemonRunning made while a supervisor is reachable,
\* after the calls before it have ended, launches nothing and leaves the
\* socket file in place, and a supervisor is reachable when it has ended.
C22_EnsureIdempotent ==
    \A k \in Clis :
       LET b == boots[k]
       IN (b.pc # "idle" /\ b.atCall.reachable /\ b.atCall.alone) =>
             /\ b.trace = <<>>
             /\ b.pid = NoPid
             /\ b.pc = "found" => \E d \in Pids : Reachable(d)

\* the supervisors that bound the socket path
Bound == {d \in Range(SpawnPids) : procs[d].pc \in {"bound", "serving", "closed"}}

\* C23: when two bootstraps overlap and each launches a supervisor, at most
\* one of the two supervisors binds the socket path.
C23_OneBindWins ==
    (/\ \A k \in Clis : boots[k].pid # NoPid
     /\ \E k \in Clis : ~boots[k].atCall.alone)
        => Cardinality(Bound) <= 1

\* C24: the request of a command is written to a socket only after the
\* command line's ensureDaemonRunning has ended with a supervisor found
\* alive or spawned and confirmed reachable.
C24_RequestAfterEnsure ==
    send.pc # "idle" =>
        \A i \in 1 .. Len(send.sockets) :
            send.sockets[i].writes > 0 =>
                boots["cli1"].pc \in {"found", "confirmed"}

\* the marker holds the text of a positive pid
RecordsPid(m) == m.exists /\ ~Number(m.text).nan /\ Number(m.text).n > 0

\* a step of stopDaemon that reads a marker recording a pid calls
\* process.kill with that pid, marks the signal for a process that exists,
\* and leaves the marker for the next step; the step that ends the call
\* after a read writes the empty marker, whatever the signalled process does
StopStep ==
    /\ (halt.pc = "read" /\ halt'.pc # "read" /\ RecordsPid(marker)) =>
           /\ signals' = Append(signals, Number(marker.text).n)
           /\ marker' = marker
           /\ halt'.pc = "clear"
           /\ Alive(Number(marker.text).n) => procs'[Number(marker.text).n].term
    /\ (halt.pc = "clear" /\ halt'.pc = "returned") =>
           /\ marker' = Cleared
           /\ procs' = procs

\* C25: stopDaemon, for a marker that records a pid, sends the termination
\* signal to that pid and then clears the marker, without waiting for the
\* process to exit; a liveness check made after it returned reports no
\* running supervisor.
C25_StopSignalsThenClears ==
    /\ [][StopStep]_vars
    /\ [](live["status"].pc = "done" => ~live["status"].result)
    /\ [](halt.pc = "returned" => ~RecordsPid(marker))

\* stopDaemon returned after it signalled the serving supervisor, which is
\* still there with the signal pending, and the liveness check that
\* followed reported no running supervisor
C25_Witness ==
    /\ halt.pc = "returned" /\ halt.text = "100" /\ halt.calls = 1
    /\ signals = <<100>>
    /\ Alive(100) /\ procs[100].term
    /\ marker = Cleared
    /\ live["status"].pc = "done" /\ ~live["status"].result

\* C30: stopDaemon calls process.kill only with a positive pid: for a
\* marker that is empty or holds zero, a negative number or no number, no
\* signal is sent.
C30_SignalsOnlyPositivePid ==
    \A i \in 1 .. Len(signals) : signals[i] > 0

\* C26: when the connection of an attach session has closed, the session is
\* no longer among the subscribers of the log and no later entry is written
\* to the connection.
C26_ClosedSessionUnsubscribed ==
    /\ [](\A c \in peerClosed : \A i \in 1 .. Len(pushProxies) :
             c \notin Range(pushProxies[i]))
    /\ [][\A c \in peerClosed : sockOut'[c] = sockOut[c]]_vars

\* the document the catch of the handler writes
ErrorReply == Frame([error |-> "Invalid message format"])

\* C29: when the handling of a start request ends with an Error response,
\* the registry holds no record of that request and no child of it is left
\* running; a failure of the metadata write does not fail the start.
C29_FailedStartLeavesNothing ==
    [][/\ \A p \in pendingStart :
             (p \notin pendingStart' /\ sockOut'[p.conn] = Append(sockOut[p.conn], ErrorReply)) =>
                 /\ ~Registered(processes', p.ref)
                 /\ killed'[p.ref] \/ exitCode'[p.ref] # Null
       /\ (pendingStart' = pendingStart /\ sockOut'["ctl"] = Append(sockOut["ctl"], ErrorReply)) =>
             /\ processes' = processes
             /\ config' = config]_vars

\* C28: one call of sendMessage with a start request makes the daemon start
\* at most one child, also when an attempt fails after its request was
\* written and the call retries.
C28_OneCallOneChild ==
    Len(config) <= 1

\* C31: while a supervisor listens on the socket path, no bootstrap and no
\* other supervisor's startup or cleanup removes its socket file or the
\* marker that holds its pid.
C31_LiveArtifactsKept ==
    [][\A d \in Pids :
          (Reachable(d) /\ procs'[d] = procs[d]) =>
              /\ sockFile' = d
              /\ marker = [exists |-> TRUE, text |-> String(d)] => marker' = marker]_vars

\* C32: a supervisor that handles SIGINT or SIGTERM removes its socket file
\* and its marker, and the process then eventually exits, also while
\* children or client connections exist.
C32_SignalCleansThenExits ==
    /\ [][(procs[100].pc = "serving" /\ procs'[100].pc = "closed") =>
             (sockFile' = NoFile /\ marker' = Absent)]_vars
    /\ (procs[100].pc = "closed") ~> (procs[100].pc = "dead")

\* what isDaemonRunning answers in the state the command line found: the
\* marker holds the pid of a live process
RanBefore(k) ==
    \E p \in boots[k].atCall.alive :
        boots[k].atCall.marker = [exists |-> TRUE, text |-> String(p)]

\* C33: an invocation of `daemon stop` or of the `daemon` status command
\* spawns no supervisor: when `daemon stop` has returned no supervisor the
\* invocation started is running, and the status command reports what held
\* before the invocation.
C33_DaemonCommandSpawnsNothing ==
    /\ "spawn" \notin Range(boots["cli1"].trace)
    /\ halt.pc = "returned" =>
          ~(boots["cli1"].pid # NoPid /\ Alive(boots["cli1"].pid))
    /\ live["status"].pc = "done" => live["status"].result = RanBefore("cli1")

\* the supervisor answered the stop request with { status: "stopped" }
Acknowledged == send.pc = "returned" /\ StatusOf(Response(send)) = "stopped"

\* C34: the stop command reports success exactly when the supervisor
\* answered the stop request with its stop acknowledgement, and reports
\* failure only when the supervisor answered with an error or the transport
\* failed.
C34_StopReportsAcknowledgement ==
    (cli.command = "stop" /\ cli.args # <<>> /\ cli.logged # <<>>) =>
        /\ cli.logged = <<"Process stopped">> <=> Acknowledged
        /\ cli.logged = <<"Failed to stop process">> =>
              (send.pc = "returned" /\ "error" \in DOMAIN Response(send))
        /\ cli.logged = <<"Fatal error in main">> => send.pc = "threw"

====
